---- MODULE Spec2Model ----
(***************************************************************************)
(* A model of dmba/graphs.py: text_decision_tree (the stack traversal and  *)
(* the report loop) and plot_decision_tree (the optional-dependency        *)
(* guards and the render steps).                                           *)
(*                                                                         *)
(* graphs.py line 13 binds np to jax.numpy.  The two bookkeeping arrays of *)
(* text_decision_tree (lines 153-154) are therefore jax arrays, which are  *)
(* immutable: an item assignment  x[idx] = y  raises TypeError whatever    *)
(* idx and y are.  The arrays of decision_tree.tree_ are the caller's      *)
(* (NumPy arrays for a fitted scikit-learn tree) and are only read.        *)
(***************************************************************************)
EXTENDS Integers, Sequences, FiniteSets, TLC

VARIABLES
    tree,        \* decision_tree.tree_: node_count and the five node arrays
    numeric,     \* element type of tree.value: "numpy" floats or "python" numbers
    indent,      \* argument of the running call
    as_ratio,    \* argument of the running call
    pc,          \* "idle" | "while" | "return" | "raised"
    stack,       \* the list of (node_id, parent_depth) pairs
    node_depth,  \* np.zeros(n_nodes, int32)
    is_leaves,   \* np.zeros(n_nodes, bool)
    exc,         \* the exception in flight, "" when none
    rep,         \* the value about to be returned
    pops,        \* node ids popped by the running call, in order
    history,     \* completed calls: arguments, outcome, tree before and after
    HAS_GRAPHVIZ, HAS_IMAGE,   \* module flags set at import
    ppc,         \* position in plot_decision_tree
    pargs,       \* arguments of the running plot_decision_tree call
    class_names, \* the local class_names
    effects,     \* external calls made by the running plot call, in order
    tempdir,     \* "none" | "open" | "closed"
    presult      \* outcome of the plot call

tvars == <<tree, numeric, indent, as_ratio, pc, stack, node_depth, is_leaves,
           exc, rep, pops, history>>
pvars == <<HAS_GRAPHVIZ, HAS_IMAGE, ppc, pargs, class_names, effects, tempdir,
           presult>>
vars == <<tvars, pvars>>

MaxNodes == 3
MaxCalls == 2

None == "None"

----------------------------------------------------------------------------
(* Text: a Python str is a sequence of tokens.                             *)

Tok(s) == [k |-> "str", s |-> s, n |-> 0]
Num(n) == [k |-> "int", s |-> "", n |-> n]
\* a float shown by its value in thousandths
Milli(n) == [k |-> "milli", s |-> "", n |-> n]
NaN == [k |-> "nan", s |-> "", n |-> 0]
NL == Tok("\n")

RECURSIVE Repeat(_, _)
\* int * str: the empty string for a count <= 0
Repeat(s, n) == IF n <= 0 THEN <<>> ELSE s \o Repeat(s, n - 1)

RECURSIVE Join(_, _)
\* sep.join(lines)
Join(sep, lines) ==
    IF Len(lines) = 0 THEN <<>>
    ELSE IF Len(lines) = 1 THEN lines[1]
    ELSE lines[1] \o <<sep>> \o Join(sep, Tail(lines))

RECURSIVE SplitLines(_)
\* the lines of a text: the maximal runs of tokens between newlines
SplitLines(text) ==
    IF \A k \in 1..Len(text) : text[k] # NL THEN <<text>>
    ELSE LET k == CHOOSE j \in 1..Len(text) :
                      text[j] = NL /\ \A m \in 1..(j - 1) : text[m] # NL
         IN <<SubSeq(text, 1, k - 1)>> \o SplitLines(SubSeq(text, k + 1, Len(text)))

----------------------------------------------------------------------------
(* Arrays are functions over 0..n-1.                                       *)

\* np.zeros(shape=n, dtype=...): every element the dtype's zero
Zeros(n, zero) == [k \in 0..(n - 1) |-> zero]

\* arr[idx] = v on an array made by jax.numpy: jax arrays are immutable and
\* __setitem__ raises TypeError before it looks at idx or v
SetItem(arr, idx, v) == [ok |-> FALSE, exc |-> "TypeError", arr |-> arr]

\* an index into an array of length n: a negative one counts from the end, one
\* outside -n..n-1 raises IndexError
InRange(n, idx) == -n <= idx /\ idx < n
GetItem(arr, n, idx) == arr[IF idx < 0 THEN idx + n ELSE idx]

----------------------------------------------------------------------------
(* The trees a caller can hand over.                                       *)

\* leaf values: each a sequence of inner sequences of counts
LeafValues == << <<<<2, 2, 4>>>>, <<<<0, 0, 0>>>>, <<<<1, 3>>, <<3, 0>>>>, <<<<>>>> >>

\* child links range over the sentinel -1, the node ids and one id too large
ChildIds(n) == -1..n

TreeOf(n, l, r, k) ==
    [node_count |-> n, children_left |-> l, children_right |-> r,
     feature |-> [i \in 0..(n - 1) |-> i % 2],
     threshold |-> [i \in 0..(n - 1) |-> i + 1],
     value |-> [i \in 0..(n - 1) |-> LeafValues[((i + k) % Len(LeafValues)) + 1]]]

Indents == { <<Tok(" "), Tok(" ")>>, <<Tok("\t")>> }

Nodes(t) == 0..(t.node_count - 1)
IsLeaf(t, i) == t.children_left[i] = t.children_right[i]
Children(t, i) == IF IsLeaf(t, i) THEN {} ELSE {t.children_left[i], t.children_right[i]}
Parents(t, j) == { i \in Nodes(t) : j \in Children(t, i) }

RECURSIVE ReachableFrom(_, _, _)
ReachableFrom(t, seen, frontier) ==
    IF frontier = {} THEN seen
    ELSE LET next == (UNION { Children(t, i) : i \in frontier }) \cap Nodes(t)
         IN ReachableFrom(t, seen \cup frontier, next \ (seen \cup frontier))

\* spec.md section 3: a rooted tree over the dense ids 0..N-1 with root 0; a leaf
\* has both links equal (the sentinel), a test node two distinct children
WellFormed(t) ==
    /\ \A i \in Nodes(t) :
          \/ t.children_left[i] = -1 /\ t.children_right[i] = -1
          \/ /\ t.children_left[i] # t.children_right[i]
             /\ t.children_left[i] \in Nodes(t) \ {0}
             /\ t.children_right[i] \in Nodes(t) \ {0}
    /\ \A j \in Nodes(t) \ {0} : Cardinality(Parents(t, j)) = 1
    /\ ReachableFrom(t, {}, {0}) = Nodes(t)

\* the well-formed trees of n nodes
WellFormedTrees(n) ==
    { t \in { TreeOf(n, l, r, k) : l \in [0..(n - 1) -> ({-1} \cup 1..(n - 1))],
                                   r \in [0..(n - 1) -> ({-1} \cup 1..(n - 1))],
                                   k \in 0..(Len(LeafValues) - 1) } :
      WellFormed(t) }

\* t with one child link overwritten
OneLinkAltered(t) ==
    { [t EXCEPT !.children_left[i] = c] : i \in Nodes(t), c \in ChildIds(t.node_count) }
    \cup
    { [t EXCEPT !.children_right[i] = c] : i \in Nodes(t), c \in ChildIds(t.node_count) }

\* what a caller hands over: a well-formed tree, or one with a single bad link
Trees ==
    LET good == UNION { WellFormedTrees(n) : n \in 1..MaxNodes }
    IN good \cup UNION { OneLinkAltered(t) : t \in good }

----------------------------------------------------------------------------
(* text_decision_tree                                                      *)

\* one pass of the while loop over the local state
\* st = [stack, node_depth, is_leaves, exc]; exc # "" when the pass raised
LoopBody(t, st) ==
    LET n == t.node_count
        top == st.stack[Len(st.stack)]
        node_id == top[1]
        parent_depth == top[2]
        popped == SubSeq(st.stack, 1, Len(st.stack) - 1)
        d == SetItem(st.node_depth, node_id, parent_depth + 1)
    IN IF ~d.ok
       THEN [st EXCEPT !.stack = popped, !.exc = d.exc]
       ELSE IF ~InRange(n, node_id)
       THEN [st EXCEPT !.stack = popped, !.node_depth = d.arr, !.exc = "IndexError"]
       ELSE IF GetItem(t.children_left, n, node_id) # GetItem(t.children_right, n, node_id)
       THEN [st EXCEPT
                !.stack = popped \o
                    << <<GetItem(t.children_left, n, node_id), parent_depth + 1>>,
                       <<GetItem(t.children_right, n, node_id), parent_depth + 1>> >>,
                !.node_depth = d.arr]
       ELSE LET f == SetItem(st.is_leaves, node_id, TRUE)
            IN [st EXCEPT !.stack = popped, !.node_depth = d.arr,
                          !.is_leaves = f.arr,
                          !.exc = IF f.ok THEN "" ELSE f.exc]

RECURSIVE SumSeq(_)
SumSeq(v) == IF Len(v) = 0 THEN 0 ELSE v[1] + SumSeq(Tail(v))

\* round(vi / s, 3) for s # 0, in thousandths: to the nearest, a tie to the even
Round3(vi, s) ==
    LET q == (1000 * vi) \div s
        r == (1000 * vi) % s
    IN IF 2 * r < s THEN q
       ELSE IF 2 * r > s THEN q + 1
       ELSE IF q % 2 = 0 THEN q ELSE q + 1

\* [round(vi / sum(v), 3) for vi in v]: a zero sum divides by zero, which is nan
\* for NumPy floats and ZeroDivisionError for Python numbers; an empty v divides
\* nothing
RatioRow(v, kind) ==
    IF Len(v) = 0 THEN [ok |-> TRUE, row |-> <<>>]
    ELSE IF SumSeq(v) # 0
    THEN [ok |-> TRUE, row |-> [k \in 1..Len(v) |-> Milli(Round3(v[k], SumSeq(v)))]]
    ELSE IF kind = "numpy" THEN [ok |-> TRUE, row |-> [k \in 1..Len(v) |-> NaN]]
    ELSE [ok |-> FALSE, row |-> <<>>]

CountRow(v) == [k \in 1..Len(v) |-> Num(v[k])]

\* the value shown in a leaf line: ok is FALSE when a division raised
LeafValue(value, ratio, kind) ==
    IF ratio
    THEN [ok |-> \A k \in 1..Len(value) : RatioRow(value[k], kind).ok,
          rows |-> [k \in 1..Len(value) |-> RatioRow(value[k], kind).row]]
    ELSE [ok |-> TRUE, rows |-> [k \in 1..Len(value) |-> CountRow(value[k])]]

RECURSIVE ShowRows(_)
\* the text of a list of lists, one bracketed group per inner sequence
ShowRows(rows) ==
    IF Len(rows) = 0 THEN <<>>
    ELSE <<Tok("[")>> \o rows[1] \o <<Tok("]")>> \o ShowRows(Tail(rows))

\* f'{node_depth[i] * indent}node={i}'
Common(depth, ind, i) == Repeat(ind, depth[i]) \o <<Tok("node="), Num(i)>>

\* the line appended for node i by one pass of the for loop
ReportLine(t, depth, leaves, ind, ratio, kind, i) ==
    IF leaves[i]
    THEN Common(depth, ind, i) \o <<Tok(" leaf node: "), Tok("[")>>
             \o ShowRows(LeafValue(t.value[i], ratio, kind).rows) \o <<Tok("]")>>
    ELSE Common(depth, ind, i)
             \o <<Tok(" test node: go to node "), Num(t.children_left[i]),
                  Tok(" if "), Num(t.feature[i]), Tok(" <= "), Num(t.threshold[i]),
                  Tok(" else to node "), Num(t.children_right[i])>>

\* the for loop and the join: rep in the order of range(n_nodes)
Report(t, depth, leaves, ind, ratio, kind) ==
    LET bad == { i \in Nodes(t) : leaves[i] /\ ~LeafValue(t.value[i], ratio, kind).ok }
    IN IF bad # {}
       THEN [ok |-> FALSE, exc |-> "ZeroDivisionError", text |-> <<>>]
       ELSE [ok |-> TRUE, exc |-> "",
             text |-> Join(NL, [k \in 1..t.node_count |->
                          ReportLine(t, depth, leaves, ind, ratio, kind, k - 1)])]

TStart(t, kind) ==
    /\ tree = t
    /\ numeric = kind
    /\ indent = <<>>
    /\ as_ratio = TRUE
    /\ pc = "idle"
    /\ stack = <<>>
    /\ node_depth = <<>>
    /\ is_leaves = <<>>
    /\ exc = ""
    /\ rep = <<>>
    /\ pops = <<>>
    /\ history = <<>>

TInit == \E t \in Trees, kind \in {"numpy", "python"} : TStart(t, kind)

\* the call up to the while loop: the arguments, the two arrays, the seeded stack
Call ==
    /\ pc = "idle"
    /\ Len(history) < MaxCalls
    /\ indent' \in Indents
    /\ as_ratio' \in BOOLEAN
    /\ node_depth' = Zeros(tree.node_count, 0)
    /\ is_leaves' = Zeros(tree.node_count, FALSE)
    /\ stack' = << <<0, -1>> >>
    /\ exc' = ""
    /\ rep' = <<>>
    /\ pops' = <<>>
    /\ pc' = "while"
    /\ UNCHANGED <<tree, numeric, history>>
    /\ UNCHANGED pvars

\* one test of the while condition: a pass of the body, or the report
Loop ==
    /\ pc = "while"
    /\ IF Len(stack) > 0
       THEN LET st == LoopBody(tree, [stack |-> stack, node_depth |-> node_depth,
                                      is_leaves |-> is_leaves, exc |-> ""])
            IN /\ stack' = st.stack
               /\ node_depth' = st.node_depth
               /\ is_leaves' = st.is_leaves
               /\ exc' = st.exc
               /\ pops' = Append(pops, stack[Len(stack)][1])
               /\ pc' = IF st.exc = "" THEN "while" ELSE "raised"
               /\ rep' = rep
       ELSE LET r == Report(tree, node_depth, is_leaves, indent, as_ratio, numeric)
            IN /\ rep' = r.text
               /\ exc' = r.exc
               /\ pc' = IF r.ok THEN "return" ELSE "raised"
               /\ UNCHANGED <<stack, node_depth, is_leaves, pops>>
    /\ UNCHANGED <<tree, numeric, indent, as_ratio, history>>
    /\ UNCHANGED pvars

\* the call ends: the caller has the report, or the exception
Finish ==
    /\ pc \in {"return", "raised"}
    /\ history' = Append(history,
           [indent |-> indent, as_ratio |-> as_ratio,
            kind |-> IF pc = "return" THEN "return" ELSE "raise",
            exc |-> exc, text |-> rep, pops |-> pops,
            depth |-> node_depth, leaves |-> is_leaves, tree |-> tree])
    /\ pc' = "idle"
    /\ UNCHANGED <<tree, numeric, indent, as_ratio, stack, node_depth, is_leaves,
                   exc, rep, pops>>
    /\ UNCHANGED pvars

TNext == Call \/ Loop \/ Finish

----------------------------------------------------------------------------
(* plot_decision_tree                                                      *)

PdfFiles == {None, "tree.pdf"}
ClassNames == {None, <<Num(0), Num(1)>>}
Digits == <<"0", "1">>

\* str(s) of a class name
Str(c) == IF c.k = "int" THEN Tok(Digits[c.n + 1]) ELSE c

\* what a call hands back: a returned value with its type, or an exception
Message(s) == [kind |-> "return", type |-> "str", value |-> s]
ImageResult == [kind |-> "return", type |-> "Image", value |-> "dot.png"]
NoneResult == [kind |-> "return", type |-> "NoneType", value |-> None]
Raised(e) == [kind |-> "raise", type |-> e, value |-> ""]
NoResult == [kind |-> "none", type |-> "", value |-> ""]

\* line 116: not HAS_GRAPHVIZ
MissingGraphviz == ~HAS_GRAPHVIZ
\* line 118: not HAS_IMAGE and not pdf_file
MissingImage == ~HAS_IMAGE /\ pargs.pdf_file = None
\* line 128: pdf_file is not None
WantPdf == pargs.pdf_file # None
\* line 130 with its guard dropped: the png is rendered and shown in any case
WantImage_Always == TRUE
\* line 130: HAS_IMAGE
WantImage == HAS_IMAGE

\* the module's two try/except imports have run; nothing is being plotted
PInit ==
    /\ HAS_GRAPHVIZ \in BOOLEAN
    /\ HAS_IMAGE \in BOOLEAN
    /\ ppc = "idle"
    /\ pargs = [pdf_file |-> None, class_names |-> None, rotate |-> FALSE]
    /\ class_names = None
    /\ effects = <<>>
    /\ tempdir = "none"
    /\ presult = NoResult

PlotCall ==
    /\ ppc \in {"idle", "done"}
    /\ \E f \in PdfFiles, c \in ClassNames, r \in BOOLEAN :
          /\ pargs' = [pdf_file |-> f, class_names |-> c, rotate |-> r]
          /\ class_names' = c
    /\ effects' = <<>>
    /\ tempdir' = "none"
    /\ presult' = NoResult
    /\ ppc' = "l116"
    /\ UNCHANGED <<HAS_GRAPHVIZ, HAS_IMAGE>>
    /\ UNCHANGED tvars

CheckGraphviz ==
    /\ ppc = "l116"
    /\ IF MissingGraphviz
       THEN /\ presult' = Message("You need to install graphviz to visualize decision trees")
            /\ ppc' = "done"
       ELSE /\ presult' = presult
            /\ ppc' = "l118"
    /\ UNCHANGED <<HAS_GRAPHVIZ, HAS_IMAGE, pargs, class_names, effects, tempdir>>
    /\ UNCHANGED tvars

CheckImage ==
    /\ ppc = "l118"
    /\ IF MissingImage
       THEN /\ presult' = Message("You need to install Image and/or graphviz to visualize decision trees")
            /\ ppc' = "done"
       ELSE /\ presult' = presult
            /\ ppc' = "l120"
    /\ UNCHANGED <<HAS_GRAPHVIZ, HAS_IMAGE, pargs, class_names, effects, tempdir>>
    /\ UNCHANGED tvars

ConvertClassNames ==
    /\ ppc = "l120"
    /\ class_names' = IF class_names # None
                      THEN [k \in 1..Len(class_names) |-> Str(class_names[k])]
                      ELSE class_names
    /\ ppc' = "l122"
    /\ UNCHANGED <<HAS_GRAPHVIZ, HAS_IMAGE, pargs, effects, tempdir, presult>>
    /\ UNCHANGED tvars

\* export_graphviz(...) into dot_data: imported unconditionally at line 17
Export ==
    /\ ppc = "l122"
    /\ effects' = Append(effects, "export_graphviz")
    /\ ppc' = "l126"
    /\ UNCHANGED <<HAS_GRAPHVIZ, HAS_IMAGE, pargs, class_names, tempdir, presult>>
    /\ UNCHANGED tvars

\* graphviz.Source(...): the name graphviz is bound only when its import succeeded
Source ==
    /\ ppc = "l126"
    /\ IF HAS_GRAPHVIZ
       THEN /\ effects' = Append(effects, "graphviz.Source")
            /\ presult' = presult
            /\ ppc' = "l127"
       ELSE /\ effects' = effects
            /\ presult' = Raised("NameError")
            /\ ppc' = "done"
    /\ UNCHANGED <<HAS_GRAPHVIZ, HAS_IMAGE, pargs, class_names, tempdir>>
    /\ UNCHANGED tvars

EnterTempdir ==
    /\ ppc = "l127"
    /\ tempdir' = "open"
    /\ ppc' = "l128"
    /\ UNCHANGED <<HAS_GRAPHVIZ, HAS_IMAGE, pargs, class_names, effects, presult>>
    /\ UNCHANGED tvars

RenderPdf ==
    /\ ppc = "l128"
    /\ effects' = IF WantPdf THEN Append(effects, "render_pdf") ELSE effects
    /\ ppc' = "l130"
    /\ UNCHANGED <<HAS_GRAPHVIZ, HAS_IMAGE, pargs, class_names, tempdir, presult>>
    /\ UNCHANGED tvars

\* lines 130-132 and the end of the with block; the name Image is bound only when
\* its import succeeded
RenderPng ==
    /\ ppc = "l130"
    /\ IF WantImage
       THEN /\ effects' = Append(effects, "render_png")
            /\ presult' = IF HAS_IMAGE THEN ImageResult ELSE Raised("NameError")
       ELSE /\ effects' = effects
            /\ presult' = NoneResult
    /\ tempdir' = "closed"
    /\ ppc' = "done"
    /\ UNCHANGED <<HAS_GRAPHVIZ, HAS_IMAGE, pargs, class_names>>
    /\ UNCHANGED tvars

PNext ==
    \/ PlotCall \/ CheckGraphviz \/ CheckImage \/ ConvertClassNames \/ Export
    \/ Source \/ EnterTempdir \/ RenderPdf \/ RenderPng

----------------------------------------------------------------------------
(* Specifications: callers of text_decision_tree, callers of               *)
(* plot_decision_tree.                                                     *)

Init == TInit /\ PInit
Next == TNext
Spec == Init /\ [][Next]_vars

InitPlot ==
    /\ PInit
    /\ TStart(TreeOf(1, [i \in {0} |-> -1], [i \in {0} |-> -1], 0), "numpy")
NextPlot == PNext
SpecPlot == InitPlot /\ [][NextPlot]_vars

----------------------------------------------------------------------------
(* Reading a completed call.                                               *)

Calls == { history[k] : k \in 1..Len(history) }
Returned(h) == h.kind = "return"
\* the while loop ran to an empty stack: the call returned, or the report raised
LoopCompleted(h) == h.kind = "return" \/ h.exc = "ZeroDivisionError"
LinesOf(h) == SplitLines(h.text)

\* the line names node i: it holds the text node=i
Names(line, i) ==
    \E j \in 1..(Len(line) - 1) : line[j] = Tok("node=") /\ line[j + 1] = Num(i)

\* line starts with the tokens of prefix
StartsWith(line, prefix) ==
    Len(line) >= Len(prefix) /\ SubSeq(line, 1, Len(prefix)) = prefix

\* line ends with the tokens of suffix
EndsWith(line, suffix) ==
    Len(line) >= Len(suffix)
    /\ SubSeq(line, Len(line) - Len(suffix) + 1, Len(line)) = suffix

IsLeafLine(line) == \E j \in 1..Len(line) : line[j] = Tok(" leaf node: ")
IsTestLine(line) == \E j \in 1..Len(line) : line[j] = Tok(" test node: go to node ")

\* the lines of h that name node i
LinesNaming(h, i) == { m \in 1..Len(LinesOf(h)) : Names(LinesOf(h)[m], i) }

\* the one line of h that names node i
LineFor(h, i) == LinesOf(h)[CHOOSE m \in LinesNaming(h, i) : TRUE]

ParentOf(t, j) == CHOOSE i \in Parents(t, j) : TRUE

\* some leaf of t has an inner sequence that is empty or sums to zero
HasZeroLeaf(t) ==
    \E i \in Nodes(t) : IsLeaf(t, i) /\
        \E k \in 1..Len(t.value[i]) : SumSeq(t.value[i][k]) = 0

----------------------------------------------------------------------------
(* The claims.                                                             *)

\* C1: for every well-formed tree of N nodes the call returns a report of exactly
\* N newline-joined lines, and each node id 0..N-1 is named by exactly one line.
C1_OneLinePerNode ==
    \A h \in Calls : WellFormed(h.tree) =>
        /\ Returned(h)
        /\ Len(LinesOf(h)) = h.tree.node_count
        /\ \A i \in Nodes(h.tree) : Cardinality(LinesNaming(h, i)) = 1

\* C2: the report's lines are in the order in which the nodes were popped from the
\* stack (for root 0 with leaves 1 and 2: the line of node 2 before that of node 1).
C2_LinesInPopOrder ==
    \A h \in Calls : WellFormed(h.tree) =>
        /\ Returned(h)
        /\ Len(LinesOf(h)) = Len(h.pops)
        /\ \A m \in 1..Len(h.pops) : Names(LinesOf(h)[m], h.pops[m])

\* C3: in ratio mode a leaf with an empty or zero-sum inner sequence ends the call
\* in the InvalidLeafValue error; no report is returned.
C3_ZeroSumIsInvalidLeafValue ==
    \A h \in Calls : (WellFormed(h.tree) /\ h.as_ratio /\ HasZeroLeaf(h.tree)) =>
        (h.kind = "raise" /\ h.exc = "InvalidLeafValue")

C5_DepthAndIndent ==
    \A h \in Calls : WellFormed(h.tree) =>
        /\ Returned(h)
        /\ h.depth[0] = 0
        /\ \A j \in Nodes(h.tree) \ {0} : h.depth[j] = h.depth[ParentOf(h.tree, j)] + 1
        /\ \A i \in Nodes(h.tree) :
              /\ LinesNaming(h, i) # {}
              /\ StartsWith(LineFor(h, i),
                            Repeat(h.indent, h.depth[i]) \o <<Tok("node="), Num(i)>>)
        /\ h.tree.node_count = 1 =>
              /\ Len(LinesOf(h)) = 1
              /\ StartsWith(h.text, <<Tok("node="), Num(0), Tok(" leaf node: ")>>)

\* C6: for a well-formed tree node i is flagged a leaf iff its two child links are
\* equal; its line is a leaf line exactly when it is flagged, and otherwise the
\* test line with its own left child, feature, threshold and right child.
C6_LeafIffEqualChildren ==
    \A h \in Calls : WellFormed(h.tree) =>
        /\ Returned(h)
        /\ \A i \in Nodes(h.tree) :
              /\ h.leaves[i] <=> IsLeaf(h.tree, i)
              /\ LinesNaming(h, i) # {}
              /\ IsLeafLine(LineFor(h, i)) <=> h.leaves[i]
              /\ IsTestLine(LineFor(h, i)) <=> ~h.leaves[i]
              /\ ~h.leaves[i] =>
                    EndsWith(LineFor(h, i),
                        <<Tok(" test node: go to node "), Num(h.tree.children_left[i]),
                          Tok(" if "), Num(h.tree.feature[i]), Tok(" <= "),
                          Num(h.tree.threshold[i]), Tok(" else to node "),
                          Num(h.tree.children_right[i])>>)

\* C8: a leaf's line shows, in count mode, its raw value ([[2,2,4]] unchanged) and,
\* in ratio mode, every inner sequence of non-zero sum divided by its own sum and
\* rounded to 3 places ([[2,2,4]] as [[0.25,0.25,0.5]], [1,3] beside [3,0] as
\* [0.25,0.75] and [1.0,0.0]).
C8_LeafValueShown ==
    \A h \in Calls : WellFormed(h.tree) =>
        \A i \in Nodes(h.tree) :
            (IsLeaf(h.tree, i) /\ (h.as_ratio => ~HasZeroLeaf(h.tree))) =>
                /\ Returned(h)
                /\ LinesNaming(h, i) # {}
                /\ h.tree.value[i] = <<<<2, 2, 4>>>> =>
                      EndsWith(LineFor(h, i),
                          IF h.as_ratio
                          THEN <<Tok("["), Tok("["), Milli(250), Milli(250), Milli(500),
                                 Tok("]"), Tok("]")>>
                          ELSE <<Tok("["), Tok("["), Num(2), Num(2), Num(4),
                                 Tok("]"), Tok("]")>>)
                /\ h.tree.value[i] = <<<<1, 3>>, <<3, 0>>>> =>
                      EndsWith(LineFor(h, i),
                          IF h.as_ratio
                          THEN <<Tok("["), Tok("["), Milli(250), Milli(750), Tok("]"),
                                 Tok("["), Milli(1000), Milli(0), Tok("]"), Tok("]")>>
                          ELSE <<Tok("["), Tok("["), Num(1), Num(3), Tok("]"),
                                 Tok("["), Num(3), Num(0), Tok("]"), Tok("]")>>)

\* C9: a call leaves the tree's node count and arrays as they were, and two calls
\* on the same tree with the same indent and as_ratio return identical reports.
C9_ReadOnlyAndRepeatable ==
    /\ \A h \in Calls : h.tree = tree
    /\ \A j, k \in 1..Len(history) :
          (j < k /\ history[j].indent = history[k].indent
                 /\ history[j].as_ratio = history[k].as_ratio) =>
              /\ Returned(history[j])
              /\ Returned(history[k])
              /\ history[j].text = history[k].text

\* C10: for a well-formed tree of N nodes the while loop ends after exactly N pops,
\* each node popped once; every stack entry carries the depth recorded for the
\* node's parent; the stack never holds more than N entries.
C10_LoopPopsEachNodeOnce ==
    /\ \A h \in Calls : WellFormed(h.tree) =>
          /\ Len(h.pops) = h.tree.node_count
          /\ { h.pops[m] : m \in 1..Len(h.pops) } = Nodes(h.tree)
          /\ LoopCompleted(h)
    /\ (pc = "while" /\ WellFormed(tree)) =>
          /\ Len(stack) <= tree.node_count
          /\ \A m \in 1..Len(stack) :
                stack[m][1] # 0 =>
                    stack[m][2] = node_depth[ParentOf(tree, stack[m][1])]

\* C7: plot_decision_tree never raises for want of graphviz or Image.  Without
\* graphviz, or without Image when no pdf_file is given, it returns a message and
\* makes no export or render call; otherwise the PDF is rendered iff pdf_file is
\* given and the result is the Image when Image is available and None when not.
C7_MissingDependencyIsMessage ==
    /\ presult.kind # "raise"
    /\ ppc = "done" =>
          IF ~HAS_GRAPHVIZ \/ (~HAS_IMAGE /\ pargs.pdf_file = None)
          THEN /\ presult.kind = "return"
               /\ presult.type = "str"
               /\ effects = <<>>
          ELSE /\ (\E k \in 1..Len(effects) : effects[k] = "render_pdf")
                      <=> pargs.pdf_file # None
               /\ presult = IF HAS_IMAGE THEN ImageResult ELSE NoneResult

\* graphviz is there, Image is not, a pdf_file is given: the PDF is rendered and
\* None comes back
C7_Witness ==
    /\ ppc = "done"
    /\ HAS_GRAPHVIZ /\ ~HAS_IMAGE /\ pargs.pdf_file # None
    /\ presult = NoneResult
    /\ effects = <<"export_graphviz", "graphviz.Source", "render_pdf">>

====
